---- MODULE Spec2Model ----
(***************************************************************************)
(* Model of ManagedClusterRoleBindingReconciler                            *)
(* (pkg/agent/controller/managedclusterrolebinding_controller.go).         *)
(*                                                                         *)
(* The hub store holds the Grants (ManagedClusterRoleBinding objects), the *)
(* spoke store the derived RBAC objects.  A worker runs one Reconcile      *)
(* invocation for a Grant name store call by store call: every store call  *)
(* is one step, it succeeds or fails, and the administrator, the hub store *)
(* and the workers of other Grants act between the steps.                  *)
(***************************************************************************)
EXTENDS Integers, Sequences, FiniteSets, TLC

(* ------------------------------ bounds ------------------------------- *)

\* longest list of target namespaces of a Grant
MaxNamespaces == 2
\* number of edits the administrator makes to Grants in one behaviour
MaxEdits == 1
\* number of store calls that fail in one behaviour
MaxFaults == 1
\* number of invocations of Reconcile where two Grants are reconciled in
\* parallel
MaxInvocations == 4

(* --------------------------- input pools ----------------------------- *)

GrantNames == {"g1", "impersonate-alice-hub1-rolebinding"}
Users == {"alice", "bob"}
\* managedCRB.RoleRef.Name: any role of the spoke, the impersonate ClusterRole
\* of a user among them
RoleNames == {"viewer", "impersonate-alice-hub1"}
Namespaces == {"a", "b"}

\* managedCRB.Subjects: a slice, empty or holding the user
SubjectLists == {<<>>} \cup {<<user>> : user \in Users}

\* common.HubOwnerLabel: the label key the hub owner identifier is read from
HubOwnerLabel == "authentication.k8s.appscode.com/hub-owner"
LabelPairs == {<<HubOwnerLabel, "hub1">>, <<"app", "g1">>}
LabelSets == SUBSET LabelPairs

\* common.SpokeAuthorizationFinalizer
SpokeAuthorizationFinalizer == "authorization.k8s.appscode.com/spoke"

\* rbac.GroupName
GroupName == "rbac.authorization.k8s.io"

\* managedCRB.RoleRef.Namespaces: nil is <<>>, a list l (also the empty
\* one) is <<l>>
NilNamespaces == <<>>
NamespaceLists == UNION {[1..n -> Namespaces] : n \in 0..MaxNamespaces}
NamespacesValues == {NilNamespaces} \cup {<<l>> : l \in NamespaceLists}

NoGrant == [name |-> ""]

\* authzv1alpah1.ManagedClusterRoleBinding, the fields Reconcile reads
ManagedClusterRoleBinding(name, labels, subjects, role, nss, fins, del) ==
  [name |-> name, labels |-> labels, subjects |-> subjects,
   roleRef |-> [name |-> role, namespaces |-> nss],
   finalizers |-> fins, deletionTimestamp |-> del]

(* --------------------------- spoke objects --------------------------- *)

NoRef == [apiGroup |-> "", kind |-> "", name |-> ""]

Object(kind, ns, name, labels, rules, subjects, roleRef) ==
  [kind |-> kind, ns |-> ns, name |-> name, labels |-> labels,
   rules |-> rules, subjects |-> subjects, roleRef |-> roleRef]

KeyOf(o) == <<o.kind, o.ns, o.name>>

Exists(store, key) == \E o \in store : KeyOf(o) = key

Lookup(store, key) == CHOOSE o \in store : KeyOf(o) = key

\* the fixed service account of the Impersonation Binding
GatewaySubject ==
  [apiGroup |-> "", kind |-> "ServiceAccount", name |-> "cluster-gateway",
   ns |-> "open-cluster-management-managed-serviceaccount"]

(* ------------------------------ state -------------------------------- *)

\* hub:       the Grants of the hub store (what HubClient reads), by name
\* spoke:     the objects of the spoke store (what SpokeClient reads and
\*            writes): ServiceAccounts, ClusterRoles, ClusterRoleBindings,
\*            RoleBindings
\* sameStore: whether SpokeClient and HubClient address the same store (the
\*            hub cluster registered as its own spoke); if not, the spoke
\*            store holds no ManagedClusterRoleBinding
\* budget:    the edits and the injected store failures still allowed
\* last:      per Grant name, the latest Reconcile invocation that has
\*            ended, if the administrator and the hub store have not
\*            changed the Grant since: the Grant it loaded, its result, the
\*            store calls it made, and the Grant and the spoke objects at
\*            its end
\* inflight:  per Grant name, the invocation of Reconcile that a worker is
\*            running, between two of its store calls
VARIABLES hub, spoke, sameStore, budget, last, inflight

vars == <<hub, spoke, sameStore, budget, last, inflight>>

(* ----------------------- Grant Lifecycle Manager --------------------- *)

\* utils.GetUserIDAndHubOwnerIDFromLabelValues: the hub owner identifier is
\* the value of the Grant's hub-owner label, "" when the label is absent
GetHubOwnerID(grant) ==
  IF \E p \in grant.labels : p[1] = HubOwnerLabel
  THEN (CHOOSE p \in grant.labels : p[1] = HubOwnerLabel)[2]
  ELSE ""

\* userName := managedCRB.Subjects[0].Name
UserName(grant) == grant.subjects[1]

\* controllerutil.ContainsFinalizer / AddFinalizer / RemoveFinalizer
ContainsFinalizer(grant, f) == f \in grant.finalizers

AddFinalizer(grant, f) == [grant EXCEPT !.finalizers = @ \cup {f}]

RemoveFinalizer(grant, f) == [grant EXCEPT !.finalizers = @ \ {f}]

\* The store holding the Grants keeps the updated Grant.
StoreGrant(grants, grant) == [grants EXCEPT ![grant.name] = grant]

\* A Grant with a deletion marker and no finalizer is one the store erases.
Releasable(grant) ==
  grant # NoGrant /\ grant.deletionTimestamp /\ grant.finalizers = {}

(* ---------------------- Permission Materializer ---------------------- *)

\* Transform with the rules and subjects appended instead of assigned
MutTransformAppends(obj, in) ==
  IF in.kind = "ClusterRole"
  THEN [obj EXCEPT !.rules = @ \o in.rules]
  ELSE [obj EXCEPT !.subjects = @ \o in.subjects, !.roleRef = in.roleRef]

\* the mutator functions handed to cu.CreateOrPatch: the fields of the
\* desired object `in` that are copied onto obj
Transform(obj, in) ==
  IF in.kind = "ClusterRole"
  THEN [obj EXCEPT !.rules = in.rules]
  ELSE [obj EXCEPT !.subjects = in.subjects, !.roleRef = in.roleRef]

\* What the store keeps of a binding it is sent: the apiGroup of a User
\* subject that has none is set to rbac.GroupName, a ServiceAccount's is
\* left empty.
Defaulted(obj) ==
  [obj EXCEPT !.subjects =
     [i \in 1..Len(@) |->
        IF @[i].kind = "User" /\ @[i].apiGroup = ""
        THEN [@[i] EXCEPT !.apiGroup = GroupName]
        ELSE @[i]]]

\* The patch cu.CreateOrPatch sends: the fields that the mutator changed on
\* the object it had read (from -> to), put on the object the store holds.
MergePatch(stored, from, to) ==
  [stored EXCEPT
     !.rules = IF from.rules # to.rules THEN to.rules ELSE @,
     !.subjects = IF from.subjects # to.subjects THEN to.subjects ELSE @,
     !.roleRef = IF from.roleRef # to.roleRef THEN to.roleRef ELSE @]

\* fmt.Sprintf("impersonate-%s-%s", userName, hubOwnerID)
ImpersonateRoleName(userName, hubOwnerID) ==
  "impersonate-" \o userName \o "-" \o hubOwnerID

\* fmt.Sprintf("impersonate-%s-%s-rolebinding", userName, hubOwnerID)
ImpersonateBindingName(userName, hubOwnerID) ==
  "impersonate-" \o userName \o "-" \o hubOwnerID \o "-rolebinding"

ImpersonateRule(userName) ==
  [apiGroups |-> <<"">>, resources |-> <<"users">>,
   verbs |-> <<"impersonate">>, resourceNames |-> <<userName>>]

\* cr: the impersonate ClusterRole
ImpersonateClusterRole(grant) ==
  Object("ClusterRole", "",
         ImpersonateRoleName(UserName(grant), GetHubOwnerID(grant)),
         grant.labels, <<ImpersonateRule(UserName(grant))>>, <<>>, NoRef)

\* crb: the ClusterRoleBinding of the gateway service account to cr
ImpersonateClusterRoleBinding(grant) ==
  Object("ClusterRoleBinding", "",
         ImpersonateBindingName(UserName(grant), GetHubOwnerID(grant)),
         grant.labels, <<>>, <<GatewaySubject>>,
         [apiGroup |-> GroupName, kind |-> "ClusterRole",
          name |-> ImpersonateClusterRole(grant).name])

\* sub: the user the permission is given to
UserSubject(grant) ==
  [apiGroup |-> "", kind |-> "User", name |-> UserName(grant), ns |-> ""]

\* givenClusterRolebinding
GivenClusterRoleBinding(grant) ==
  Object("ClusterRoleBinding", "", grant.name, grant.labels, <<>>,
         <<UserSubject(grant)>>,
         [apiGroup |-> GroupName, kind |-> "ClusterRole",
          name |-> grant.roleRef.name])

\* givenRolebinding, for the namespace ns
GivenRoleBinding(grant, ns) ==
  Object("RoleBinding", ns, grant.name, grant.labels, <<>>,
         <<UserSubject(grant)>>,
         [apiGroup |-> GroupName, kind |-> "Role",
          name |-> grant.roleRef.name])

\* the loop over the namespaces, left after its first round
MutGivenRoleBindingsFirstOnly(grant) ==
  IF grant.roleRef.namespaces[1] = <<>> THEN <<>>
  ELSE <<GivenRoleBinding(grant, grant.roleRef.namespaces[1][1])>>

\* for _, ns := range managedCRB.RoleRef.Namespaces: one givenRolebinding
\* for each entry of the list, in its order
GivenRoleBindings(grant) ==
  [i \in 1..Len(grant.roleRef.namespaces[1]) |->
     GivenRoleBinding(grant, grant.roleRef.namespaces[1][i])]

\* The objects Reconcile synchronizes for a Grant without deletion marker,
\* in its order: cr, crb, then givenClusterRolebinding if the namespaces
\* are nil, else the givenRolebindings.
DesiredObjects(grant) ==
  <<ImpersonateClusterRole(grant), ImpersonateClusterRoleBinding(grant)>>
  \o (IF grant.roleRef.namespaces = NilNamespaces
      THEN <<GivenClusterRoleBinding(grant)>>
      ELSE GivenRoleBindings(grant))

(* -------------------------- Cleanup Sweeper -------------------------- *)

\* labels.SelectorFromSet(set).Matches(labels): every pair of the set is
\* among the labels; the empty set selects everything
SelectorMatches(set, objLabels) == set \subseteq objLabels

\* r.SpokeClient.List(ctx, &list, client.MatchingLabelsSelector{...})
ListItems(store, kind, set) ==
  {o \in store : o.kind = kind /\ SelectorMatches(set, o.labels)}

\* the kinds deleteAssociatedResources lists, in its order
SweptKindsInOrder == <<"ServiceAccount", "ClusterRole", "ClusterRoleBinding">>

(* ------------------------ a running invocation ----------------------- *)

Call(client, verb, key, res) ==
  [client |-> client, verb |-> verb, key |-> key, res |-> res]

GrantKey(name) == <<"ManagedClusterRoleBinding", "", name>>

\* A worker that runs no invocation.  In a running invocation, pc is the
\* store call it makes next; loaded is the Grant as HubClient.Get read it
\* and mcrb the local managedCRB; stale tells that the Grant has been
\* written on the store since; calls are the store calls made; before are
\* the spoke objects the invocation began with; todo are the objects still
\* to synchronize and cur what the Get of cu.CreateOrPatch read; kinds are
\* the kinds still to list and items the listed objects still to delete.
NoInvocation ==
  [pc |-> "idle", loaded |-> NoGrant, mcrb |-> NoGrant, stale |-> FALSE,
   err |-> "", calls |-> <<>>, before |-> {}, todo |-> <<>>, cur |-> <<>>,
   kinds |-> <<>>, items |-> {}]

\* no invocation on record
Idle == [name |-> "", err |-> "", calls |-> <<>>, mcrb |-> NoGrant]

Logged(p, client, verb, key, res) ==
  [p EXCEPT !.calls = Append(@, Call(client, verb, key, res))]

\* return reconcile.Result{}, err ("" is nil); "Panic" is the run-time
\* panic that ends the invocation without a result
Return(p, err) == [p EXCEPT !.pc = "return", !.err = err]

\* what a store call leaves: the invocation, the two stores and the number
\* of injected failures it used
Outcome(p, grants, objects, faults) ==
  [p |-> p, hub |-> grants, spoke |-> objects, faults |-> faults]

\* the injected failure of a store call, if the budget allows one
MayFail(p) == IF budget.faults > 0 THEN {Outcome(p, hub, spoke, 1)} ELSE {}

\* lines 93-215: the objects are synchronized one after the other
Materialize(p) ==
  [p EXCEPT !.pc = "get", !.todo = DesiredObjects(p.mcrb)]

\* addFinalizerIfNeeded: the finalizer is put on the local copy and the
\* copy is sent to the store, if it is not on the Grant yet
addFinalizerIfNeeded(p) ==
  IF ~ContainsFinalizer(p.mcrb, SpokeAuthorizationFinalizer)
  THEN [p EXCEPT !.pc = "finalizer",
                 !.mcrb = AddFinalizer(@, SpokeAuthorizationFinalizer)]
  ELSE Materialize(p)

\* deleteAssociatedResources: the three kinds are listed one after the other
deleteAssociatedResources(p) ==
  [p EXCEPT !.pc = "list", !.kinds = SweptKindsInOrder]

\* Reconcile after its load (lines 69-91): managedCRB.Subjects[0] panics on
\* a Grant without subject; a Grant with a deletion marker is swept if it
\* has the finalizer and left alone if not; any other Grant gets the
\* finalizer and is synchronized.
Dispatch(p) ==
  IF p.mcrb.subjects = <<>> THEN Return(p, "Panic")
  ELSE IF p.mcrb.deletionTimestamp
  THEN IF ContainsFinalizer(p.mcrb, SpokeAuthorizationFinalizer)
       THEN deleteAssociatedResources(p)
       ELSE Return(p, "")
  ELSE addFinalizerIfNeeded(p)

\* r.HubClient.Get (lines 65-68) and what Reconcile does with its result
HubGet(name) ==
  LET key == GrantKey(name) IN
  {IF hub[name] = NoGrant
   THEN Outcome(Return(Logged(NoInvocation, "hub", "get", key, "notfound"),
                       "NotFound"), hub, spoke, 0)
   ELSE Outcome(Dispatch([Logged(NoInvocation, "hub", "get", key, "ok")
                            EXCEPT !.loaded = hub[name], !.mcrb = hub[name],
                                   !.before = spoke]),
                hub, spoke, 0)}
  \cup MayFail(Return(Logged(NoInvocation, "hub", "get", key, "error"),
                      "StoreError"))

\* r.SpokeClient.Update(ctx, managedCRB) (lines 81 and 222): the store
\* SpokeClient addresses must hold the Grant, and hold it as it was loaded;
\* then it keeps the local copy.  `then` is the invocation after the update.
SpokeUpdate(name, p, then) ==
  LET key == GrantKey(name) IN
  {IF ~sameStore \/ hub[name] = NoGrant
   THEN Outcome(Return(Logged(p, "spoke", "update", key, "notfound"),
                       "NotFound"), hub, spoke, 0)
   ELSE IF p.stale
   THEN Outcome(Return(Logged(p, "spoke", "update", key, "conflict"),
                       "Conflict"), hub, spoke, 0)
   ELSE Outcome(Logged(then, "spoke", "update", key, "ok"),
                StoreGrant(hub, p.mcrb), spoke, 0)}
  \cup MayFail(Return(Logged(p, "spoke", "update", key, "error"),
                      "StoreError"))

\* the Get of cu.CreateOrPatch for the next object to synchronize; an error
\* other than NotFound is returned
CreateOrPatchGet(p) ==
  LET key == KeyOf(Head(p.todo)) IN
  {Outcome(IF Exists(spoke, key)
           THEN [Logged(p, "spoke", "get", key, "ok")
                   EXCEPT !.pc = "write", !.cur = <<Lookup(spoke, key)>>]
           ELSE [Logged(p, "spoke", "get", key, "notfound")
                   EXCEPT !.pc = "write", !.cur = <<>>],
           hub, spoke, 0)}
  \cup MayFail(Return(Logged(p, "spoke", "get", key, "error"), "StoreError"))

\* a failed write after which Reconcile goes on with the next object
MutWriteFailedGoesOn(p, verb, key, res, err) ==
  IF Len(p.todo) = 1
  THEN Return(Logged(p, "spoke", verb, key, res), "")
  ELSE [Logged(p, "spoke", verb, key, res)
          EXCEPT !.pc = "get", !.todo = Tail(@), !.cur = <<>>]

\* if err != nil { return reconcile.Result{}, err } after cu.CreateOrPatch
WriteFailed(p, verb, key, res, err) ==
  Return(Logged(p, "spoke", verb, key, res), err)

\* after the write of an object: the next object, or the end of Reconcile
\* (line 215)
Wrote(p, verb, key) ==
  IF Len(p.todo) = 1
  THEN Return(Logged(p, "spoke", verb, key, "ok"), "")
  ELSE [Logged(p, "spoke", verb, key, "ok")
          EXCEPT !.pc = "get", !.todo = Tail(@), !.cur = <<>>]

\* the write of cu.CreateOrPatch: Create after a Get that found nothing,
\* else Patch of what the mutator changed on the object the Get read; the
\* store refuses to create an object that exists by now, to patch one that
\* is gone, and to change the roleRef of a binding it holds (Invalid: the
\* roleRef of a ClusterRoleBinding or RoleBinding cannot be changed)
CreateOrPatchWrite(p) ==
  LET obj == Head(p.todo)
      key == KeyOf(obj)
      verb == IF p.cur = <<>> THEN "create" ELSE "patch"
      patched == Defaulted(MergePatch(Lookup(spoke, key), p.cur[1],
                                      Transform(p.cur[1], obj)))
  IN  {IF p.cur = <<>>
       THEN IF Exists(spoke, key)
            THEN Outcome(WriteFailed(p, verb, key, "exists", "AlreadyExists"),
                         hub, spoke, 0)
            ELSE Outcome(Wrote(p, verb, key), hub,
                         spoke \cup {Defaulted(Transform(obj, obj))}, 0)
       ELSE IF ~Exists(spoke, key)
            THEN Outcome(WriteFailed(p, verb, key, "notfound", "NotFound"),
                         hub, spoke, 0)
            ELSE IF patched.roleRef # Lookup(spoke, key).roleRef
            THEN Outcome(WriteFailed(p, verb, key, "invalid", "Invalid"),
                         hub, spoke, 0)
            ELSE Outcome(Wrote(p, verb, key), hub,
                         (spoke \ {Lookup(spoke, key)}) \cup {patched}, 0)}
      \cup MayFail(WriteFailed(p, verb, key, "error", "StoreError"))

\* after the loop over the items of a kind: the list of the next kind, or
\* the end of deleteAssociatedResources, after which Reconcile takes the
\* finalizer off the local copy (line 80)
NextKind(p) ==
  IF Len(p.kinds) = 1
  THEN [p EXCEPT !.pc = "unfinalize", !.kinds = <<>>, !.items = {},
                 !.mcrb = RemoveFinalizer(@, SpokeAuthorizationFinalizer)]
  ELSE [p EXCEPT !.pc = "list", !.kinds = Tail(@), !.items = {}]

\* a failed list that deleteAssociatedResources returns
MutListFailedReturns(p, key) ==
  Return(Logged(p, "spoke", "list", key, "error"), "StoreError")

\* if err == nil { ... }: the loop over the items is skipped after a failed
\* list and the error is dropped
ListFailed(p, key) == NextKind(Logged(p, "spoke", "list", key, "error"))

\* r.SpokeClient.List of the next kind, with the selector made from the
\* Grant's labels
SpokeList(p) ==
  LET kind == Head(p.kinds)
      key == <<kind, "", "">>
      items == ListItems(spoke, kind, p.mcrb.labels)
  IN  {Outcome(IF items = {}
               THEN NextKind(Logged(p, "spoke", "list", key, "ok"))
               ELSE [Logged(p, "spoke", "list", key, "ok")
                       EXCEPT !.pc = "delete", !.items = items],
               hub, spoke, 0)}
      \cup (IF budget.faults > 0
            THEN {Outcome(ListFailed(p, key), hub, spoke, 1)} ELSE {})

\* a failed delete after which the sweep goes on
MutDeleteFailedGoesOn(p, o, res, err) ==
  IF p.items = {o}
  THEN NextKind(Logged(p, "spoke", "delete", KeyOf(o), res))
  ELSE [Logged(p, "spoke", "delete", KeyOf(o), res) EXCEPT !.items = @ \ {o}]

\* if err := r.SpokeClient.Delete(...); err != nil { return err }
DeleteFailed(p, o, res, err) ==
  Return(Logged(p, "spoke", "delete", KeyOf(o), res), err)

\* r.SpokeClient.Delete of the listed item o; the store refuses to delete
\* an object that is gone by now
SpokeDelete(p, o) ==
  LET key == KeyOf(o) IN
  {IF ~Exists(spoke, key)
   THEN Outcome(DeleteFailed(p, o, "notfound", "NotFound"), hub, spoke, 0)
   ELSE Outcome(IF p.items = {o}
                THEN NextKind(Logged(p, "spoke", "delete", key, "ok"))
                ELSE [Logged(p, "spoke", "delete", key, "ok")
                        EXCEPT !.items = @ \ {o}],
                hub, spoke \ {Lookup(spoke, key)}, 0)}
  \cup (IF budget.faults > 0
        THEN {Outcome(DeleteFailed(p, o, "error", "StoreError"),
                      hub, spoke, 1)} ELSE {})

(* ------------------------------ actions ------------------------------ *)

\* the spoke object no Grant made: the gateway service account, which
\* carries a label of its own
GatewayServiceAccount ==
  Object("ServiceAccount", GatewaySubject.ns, GatewaySubject.name,
         {<<"app", "g1">>}, <<>>, <<>>, NoRef)

\* the Grants the administrator may have created on the hub
NewGrants ==
  {ManagedClusterRoleBinding(name, labels, subjects, role, nss, {}, FALSE) :
     name \in GrantNames, labels \in LabelSets, subjects \in SubjectLists,
     role \in RoleNames, nss \in NamespacesValues}

\* The reconciler starts with one Grant on the hub that it has not seen yet
\* and with nothing derived on the spoke.
Started ==
  /\ \E grant \in NewGrants :
       hub = [n \in GrantNames |-> IF n = grant.name THEN grant ELSE NoGrant]
  /\ spoke = {GatewayServiceAccount}
  /\ sameStore \in BOOLEAN
  /\ last = [n \in GrantNames |-> Idle]
  /\ inflight = [n \in GrantNames |-> NoInvocation]

\* Store calls fail MaxFaults times at most, and the Grant is not edited.
Init == Started /\ budget = [edits |-> 0, faults |-> MaxFaults, runs |-> 0]

\* The store call of the invocation for `name` has been made: the stores
\* are as it leaves them, and the invocation goes on or has ended; `runs`
\* is 1 if the invocation counts among the MaxInvocations.
Apply(name, out, runs) ==
  /\ hub' = out.hub
  /\ spoke' = out.spoke
  /\ budget' = [budget EXCEPT !.faults = @ - out.faults, !.runs = @ - runs]
  /\ IF out.p.pc = "return"
     THEN /\ last' = [last EXCEPT ![name] =
                 [name |-> name, err |-> out.p.err, calls |-> out.p.calls,
                  mcrb |-> out.p.loaded]]
          /\ inflight' = [inflight EXCEPT ![name] = NoInvocation]
     ELSE /\ inflight' = [inflight EXCEPT ![name] = out.p]
          /\ UNCHANGED last
  /\ UNCHANGED sameStore

\* A worker is given the request `name`: Reconcile loads the Grant (lines
\* 65-68) and branches (lines 69-91).
Deliver(name) ==
  /\ inflight[name].pc = "idle"
  /\ \E out \in HubGet(name) : Apply(name, out, 0)

\* addFinalizerIfNeeded, its update of the Grant (line 222)
FinalizerStep(name) ==
  /\ inflight[name].pc = "finalizer"
  /\ \E out \in SpokeUpdate(name, inflight[name], Materialize(inflight[name])) :
       Apply(name, out, 0)

\* cu.CreateOrPatch, its Get of the next object to synchronize
GetStep(name) ==
  /\ inflight[name].pc = "get"
  /\ \E out \in CreateOrPatchGet(inflight[name]) : Apply(name, out, 0)

\* cu.CreateOrPatch, its Create or Patch of the object
WriteStep(name) ==
  /\ inflight[name].pc = "write"
  /\ \E out \in CreateOrPatchWrite(inflight[name]) : Apply(name, out, 0)

\* deleteAssociatedResources, its List of the next kind (lines 231, 243, 255)
ListStep(name) ==
  /\ inflight[name].pc = "list"
  /\ \E out \in SpokeList(inflight[name]) : Apply(name, out, 0)

\* deleteAssociatedResources, its Delete of a listed item (lines 236, 248,
\* 260)
DeleteStep(name) ==
  /\ inflight[name].pc = "delete"
  /\ \E o \in inflight[name].items :
       \E out \in SpokeDelete(inflight[name], o) : Apply(name, out, 0)

\* the update that takes the finalizer off the Grant (line 81), after which
\* Reconcile returns nil
UnfinalizeStep(name) ==
  /\ inflight[name].pc = "unfinalize"
  /\ \E out \in SpokeUpdate(name, inflight[name], Return(inflight[name], "")) :
       Apply(name, out, 0)

\* The Grant `name` has been written by someone else than its worker: a
\* running invocation holds a stale copy, and the record of the latest
\* invocation is dropped.
Touched(name) ==
  /\ inflight' = [inflight EXCEPT ![name].stale = (inflight[name].pc # "idle")]
  /\ last' = [last EXCEPT ![name] = Idle]

\* The administrator edits a Grant: its labels, its subjects or its scope.
AdminEdit(name, labels, subjects, nss) ==
  /\ hub[name] # NoGrant
  /\ ~hub[name].deletionTimestamp
  /\ budget.edits > 0
  /\ \/ labels # hub[name].labels /\ subjects = hub[name].subjects
        /\ nss = hub[name].roleRef.namespaces
     \/ labels = hub[name].labels /\ subjects # hub[name].subjects
        /\ nss = hub[name].roleRef.namespaces
     \/ labels = hub[name].labels /\ subjects = hub[name].subjects
        /\ nss # hub[name].roleRef.namespaces
  /\ hub' = [hub EXCEPT ![name].labels = labels, ![name].subjects = subjects,
                        ![name].roleRef.namespaces = nss]
  /\ budget' = [budget EXCEPT !.edits = @ - 1]
  /\ Touched(name)
  /\ UNCHANGED <<spoke, sameStore>>

\* The administrator deletes a Grant: the store sets its deletion marker.
AdminDelete(name) ==
  /\ hub[name] # NoGrant
  /\ ~hub[name].deletionTimestamp
  /\ hub' = StoreGrant(hub, [hub[name] EXCEPT !.deletionTimestamp = TRUE])
  /\ Touched(name)
  /\ UNCHANGED <<spoke, sameStore, budget>>

\* The store erases a Grant that has a deletion marker and no finalizer
\* left; until it has, HubClient still reads the Grant.
Release(name) ==
  /\ Releasable(hub[name])
  /\ hub' = [hub EXCEPT ![name] = NoGrant]
  /\ Touched(name)
  /\ UNCHANGED <<spoke, sameStore, budget>>

\* a store call of the worker of the request `name`
Work(name) ==
  \/ Deliver(name)
  \/ FinalizerStep(name)
  \/ GetStep(name)
  \/ WriteStep(name)
  \/ ListStep(name)
  \/ DeleteStep(name)
  \/ UnfinalizeStep(name)

Next ==
  \/ \E name \in GrantNames : Deliver(name)
  \/ \E name \in GrantNames : FinalizerStep(name)
  \/ \E name \in GrantNames : GetStep(name)
  \/ \E name \in GrantNames : WriteStep(name)
  \/ \E name \in GrantNames : ListStep(name)
  \/ \E name \in GrantNames : DeleteStep(name)
  \/ \E name \in GrantNames : UnfinalizeStep(name)
  \/ \E name \in GrantNames : Release(name)
  \/ \E name \in GrantNames : AdminDelete(name)

Spec == Init /\ [][Next]_vars

(* ------------------------- an edited Grant --------------------------- *)

\* The administrator edits the Grant MaxEdits times at most, and no store
\* call fails beyond what the edits cause.
InitEdit ==
  Started /\ budget = [edits |-> MaxEdits, faults |-> 0, runs |-> 0]

NextEdit ==
  \/ \E name \in GrantNames : Deliver(name)
  \/ \E name \in GrantNames : FinalizerStep(name)
  \/ \E name \in GrantNames : GetStep(name)
  \/ \E name \in GrantNames : WriteStep(name)
  \/ \E name \in GrantNames : ListStep(name)
  \/ \E name \in GrantNames : DeleteStep(name)
  \/ \E name \in GrantNames : UnfinalizeStep(name)
  \/ \E name \in GrantNames : Release(name)
  \/ \E name \in GrantNames, labels \in LabelSets, subjects \in SubjectLists,
        nss \in NamespacesValues : AdminEdit(name, labels, subjects, nss)
  \/ \E name \in GrantNames : AdminDelete(name)

EditSpec == InitEdit /\ [][NextEdit]_vars

(* ------------------------- delivery and stores ----------------------- *)

\* At-least-once delivery with redelivery: a worker that has a store call
\* to make makes it, and a request is delivered again after its invocation
\* has ended; the store erases a released Grant; no store call fails
\* beyond what the edits cause.
LiveSpec ==
  /\ InitEdit
  /\ [][NextEdit]_vars
  /\ \A name \in GrantNames : WF_vars(Work(name))
  /\ \A name \in GrantNames : WF_vars(Release(name))

(* ------------------- two Grants, reconciled in parallel -------------- *)

\* two Grants for one subject and one hub owner: the Grant g1, of either
\* scope, and a cluster-wide Grant with the same labels or with one more
PairsOfGrants ==
  {pair \in NewGrants \X NewGrants :
     /\ pair[1].name = "g1" /\ pair[2].name # "g1"
     /\ pair[1].subjects = pair[2].subjects
     /\ pair[1].subjects # <<>>
     /\ pair[1].labels = {<<HubOwnerLabel, "hub1">>}
     /\ pair[1].roleRef.name = "viewer"
     /\ GetHubOwnerID(pair[2]) = "hub1"
     /\ pair[1].roleRef.namespaces \in {NilNamespaces, << <<"a">> >>}
     /\ pair[2].roleRef.namespaces = NilNamespaces}

\* Both Grants are on the hub, no worker has started and, beyond the
\* conflicts of the workers among themselves, no store call fails; the
\* two requests are delivered MaxInvocations times in all.
InitPair ==
  /\ \E pair \in PairsOfGrants :
       hub = [n \in GrantNames |-> IF n = "g1" THEN pair[1] ELSE pair[2]]
  /\ spoke = {GatewayServiceAccount}
  /\ sameStore \in BOOLEAN
  /\ budget = [edits |-> 0, faults |-> 0, runs |-> MaxInvocations]
  /\ last = [n \in GrantNames |-> Idle]
  /\ inflight = [n \in GrantNames |-> NoInvocation]

\* Deliver, as one of the MaxInvocations deliveries
DeliverCounted(name) ==
  /\ budget.runs > 0
  /\ inflight[name].pc = "idle"
  /\ \E out \in HubGet(name) : Apply(name, out, 1)

NextPair ==
  \/ \E name \in GrantNames : DeliverCounted(name)
  \/ \E name \in GrantNames : FinalizerStep(name)
  \/ \E name \in GrantNames : GetStep(name)
  \/ \E name \in GrantNames : WriteStep(name)
  \/ \E name \in GrantNames : ListStep(name)
  \/ \E name \in GrantNames : DeleteStep(name)
  \/ \E name \in GrantNames : UnfinalizeStep(name)
  \/ \E name \in GrantNames : AdminDelete(name)
  \/ \E name \in GrantNames : Release(name)

PairSpec == InitPair /\ [][NextPair]_vars

(* ---------------------- vocabulary of the claims --------------------- *)

\* an invocation for the request n has ended, the Grant has not been
\* written by anyone else since and no later invocation for n has begun
Invoked(n) == last[n].name # "" /\ inflight[n].pc = "idle"

\* the latest invocation loaded its Grant
Handled(n) == Invoked(n) /\ last[n].calls[1].res = "ok"

HandledActive(n) == Handled(n) /\ ~last[n].mcrb.deletionTimestamp

HandledTerminating(n) == Handled(n) /\ last[n].mcrb.deletionTimestamp

HadFinalizer(n) == ContainsFinalizer(last[n].mcrb, SpokeAuthorizationFinalizer)

Succeeded(n) == last[n].err = ""

\* the step ends an invocation for the request n
Returns(n) ==
  /\ inflight'[n].pc = "idle" /\ last'[n].name # ""
  /\ inflight[n].pc # "idle" \/ last'[n] # last[n]

Made(calls, verb, res) ==
  \E i \in 1..Len(calls) : calls[i].verb = verb /\ calls[i].res = res

MadeOn(calls, verb, res, key) ==
  \E i \in 1..Len(calls) :
    calls[i].verb = verb /\ calls[i].res = res /\ calls[i].key = key

NoStoreFailure(calls) == \A i \in 1..Len(calls) : calls[i].res # "error"

\* the store calls that change an object
Mutations == {"update", "create", "patch", "delete"}

\* the call is a store mutation that the store did not carry out
FailedCall(c) == c.verb \in Mutations /\ c.res # "ok"

FailedDelete(calls) ==
  \E i \in 1..Len(calls) : calls[i].verb = "delete" /\ FailedCall(calls[i])

\* whether the Grant named `name` still carries the finalizer on the hub
FinalizerOn(name) ==
  hub[name] # NoGrant
  /\ ContainsFinalizer(hub[name], SpokeAuthorizationFinalizer)

GrantBindingKeys(grant) ==
  IF grant.roleRef.namespaces = NilNamespaces
  THEN {KeyOf(GivenClusterRoleBinding(grant))}
  ELSE {KeyOf(GivenRoleBinding(grant, grant.roleRef.namespaces[1][i])) :
          i \in 1..Len(grant.roleRef.namespaces[1])}

DerivedKeys(grant) ==
  {KeyOf(ImpersonateClusterRole(grant)),
   KeyOf(ImpersonateClusterRoleBinding(grant))} \cup GrantBindingKeys(grant)

\* an object with the identity of an Impersonation Role, an Impersonation
\* Binding or a Grant Binding (of either scope) of the Grant
DerivedFrom(o, grant) ==
  \/ KeyOf(o) \in {KeyOf(ImpersonateClusterRole(grant)),
                    KeyOf(ImpersonateClusterRoleBinding(grant)),
                    KeyOf(GivenClusterRoleBinding(grant))}
  \/ o.kind = "RoleBinding" /\ o.name = grant.name

SweptKinds == {"ServiceAccount", "ClusterRole", "ClusterRoleBinding"}

\* o has the identity and the content (rules, subjects, role reference) of
\* the desired object d; the labels are not compared
Same(o, d) ==
  /\ KeyOf(o) = KeyOf(d)
  /\ o.rules = d.rules
  /\ o.subjects = Defaulted(d).subjects
  /\ o.roleRef = d.roleRef

ExactlyOne(store, d) == Cardinality({o \in store : Same(o, d)}) = 1

\* the Grant named `name` is on the hub and has no deletion marker
ActiveOn(name) == hub[name] # NoGrant /\ ~hub[name].deletionTimestamp

\* the Grant named `name` is on the hub with a deletion marker
TerminatingOn(name) == hub[name] # NoGrant /\ hub[name].deletionTimestamp

\* the Grant carries the finalizer and each of its derived objects is on
\* the spoke
Materialized(name) ==
  /\ FinalizerOn(name)
  /\ hub[name].subjects # <<>>
  /\ \A k \in DerivedKeys(hub[name]) : Exists(spoke, k)

(* ------------------------------ claims ------------------------------- *)

\* C1: when Reconcile handles a Grant with a deletion marker and the
\* finalizer, a failed delete of the sweep leaves the finalizer on the Grant
\* and makes Reconcile return an error; the finalizer is gone only after an
\* invocation whose sweep had no failed delete and that returned no error.
C1_FinalizerOnlyAfterCleanup ==
  \A n \in GrantNames :
    (HandledTerminating(n) /\ HadFinalizer(n)) =>
       /\ FailedDelete(last[n].calls) => (FinalizerOn(n) /\ ~Succeeded(n))
       /\ ~FinalizerOn(n) => (~FailedDelete(last[n].calls) /\ Succeeded(n))

\* C1 witness: a delete of the sweep failed after another had been made,
\* and the finalizer is still on the Grant.
C1_Witness ==
  \E n \in GrantNames :
    /\ HandledTerminating(n) /\ HadFinalizer(n)
    /\ Made(last[n].calls, "delete", "error")
    /\ Made(last[n].calls, "delete", "ok")
    /\ FinalizerOn(n)

\* C2 (as claimed): after a successful Reconcile of a Grant with a deletion
\* marker and the finalizer, the finalizer is removed and the spoke holds no
\* Impersonation Role, Impersonation Binding or Grant Binding of the Grant
\* that carries the Grant's label set.
C2_CleanupComplete ==
  \A n \in GrantNames :
    (HandledTerminating(n) /\ HadFinalizer(n) /\ Succeeded(n)) =>
       /\ ~FinalizerOn(n)
       /\ \A o \in spoke :
            ~(DerivedFrom(o, last[n].mcrb) /\ o.labels = last[n].mcrb.labels)

\* C3 (as claimed): the sweep of a Terminating Grant removes only
\* ServiceAccounts, ClusterRoles and ClusterRoleBindings whose label set
\* equals the Grant's; every object with another label set stays as it was.
C3_SweepOnlyEqualLabels ==
  [][\A n \in GrantNames :
       inflight[n].pc = "delete" =>
         \A o \in spoke :
           /\ o.labels # inflight[n].mcrb.labels => o \in spoke'
           /\ o \notin spoke' =>
                (o.kind \in SweptKinds
                 /\ o.labels = inflight[n].mcrb.labels)]_vars

\* C4 (as claimed): after a successful Reconcile of an Active Grant, every
\* derived object of the Grant on the spoke has the Grant's label set.
C4_DerivedLabelsEqual ==
  \A n \in GrantNames :
    (HandledActive(n) /\ Succeeded(n)) =>
       \A o \in spoke :
         KeyOf(o) \in DerivedKeys(last[n].mcrb) =>
            o.labels = last[n].mcrb.labels

\* C5 (as claimed): a Reconcile whose load returns not-found returns no
\* error and makes no other store call.
C5_NotFoundSucceeds ==
  \A n \in GrantNames :
    (Invoked(n) /\ last[n].calls[1].res = "notfound") =>
       (Succeeded(n) /\ Len(last[n].calls) = 1)

\* the step ends an invocation for n that loaded the Grant as the invocation
\* before it, on record, had left it
ReturnsFromNext(n) ==
  /\ last[n].name # "" /\ last[n].calls[1].res = "ok"
  /\ ~last[n].mcrb.deletionTimestamp
  /\ Returns(n)
  /\ last'[n].calls[1].res = "ok"
  /\ last'[n].mcrb = AddFinalizer(last[n].mcrb, SpokeAuthorizationFinalizer)

\* C6: a second successful Reconcile of an Active Grant right after a first
\* successful one leaves the spoke objects and the Grant's finalizers as
\* the first left them.
C6_SecondReconcileNoChange ==
  [][\A n \in GrantNames :
       (ReturnsFromNext(n) /\ last[n].err = "" /\ last'[n].err = "") =>
          /\ spoke' = inflight[n].before
          /\ hub'[n].finalizers = last'[n].mcrb.finalizers]_vars

\* C6 witness: a successful Reconcile that found the finalizer and every
\* derived object in place, with no store failure before it.
C6_Witness ==
  \E n \in GrantNames :
    /\ HandledActive(n) /\ Succeeded(n) /\ HadFinalizer(n)
    /\ Made(last[n].calls, "patch", "ok")
    /\ ~Made(last[n].calls, "create", "ok")
    /\ budget.faults = MaxFaults

\* C7 (as claimed): after a successful Reconcile of an Active cluster-wide
\* Grant the spoke holds exactly one Impersonation Role, one Impersonation
\* Binding and one cluster-scoped Grant Binding with the documented names
\* and content, and the invocation created no RoleBinding.
C7_ClusterWideConvergence ==
  \A n \in GrantNames :
    (HandledActive(n) /\ Succeeded(n)
     /\ last[n].mcrb.roleRef.namespaces = NilNamespaces) =>
       /\ ExactlyOne(spoke, ImpersonateClusterRole(last[n].mcrb))
       /\ ExactlyOne(spoke, ImpersonateClusterRoleBinding(last[n].mcrb))
       /\ ExactlyOne(spoke, GivenClusterRoleBinding(last[n].mcrb))
       /\ \A i \in 1..Len(last[n].calls) :
            ~(last[n].calls[i].verb = "create"
              /\ last[n].calls[i].key[1] = "RoleBinding")

\* C8: after a successful Reconcile of an Active Grant scoped to a list of
\* namespaces, every namespace of the list holds exactly one RoleBinding
\* named as the Grant that binds the user to the role, and the spoke holds
\* no cluster-scoped Grant Binding that was not there before.
C8_NamespaceFanOut ==
  [][\A n \in GrantNames :
       (Returns(n) /\ last'[n].calls[1].res = "ok" /\ last'[n].err = ""
        /\ ~last'[n].mcrb.deletionTimestamp
        /\ last'[n].mcrb.roleRef.namespaces # NilNamespaces) =>
          LET nss == last'[n].mcrb.roleRef.namespaces[1] IN
          /\ \A i \in 1..Len(nss) :
               ExactlyOne(spoke', GivenRoleBinding(last'[n].mcrb, nss[i]))
          /\ \A o \in spoke' :
               Same(o, GivenClusterRoleBinding(last'[n].mcrb)) =>
                  o \in inflight[n].before]_vars

\* C8 witness: a successful Reconcile of a Grant scoped to two different
\* namespaces, on a spoke that held the cluster-scoped Grant Binding of the
\* Grant from the time it was cluster-wide.
C8_Witness ==
  \E n \in GrantNames :
    /\ HandledActive(n) /\ Succeeded(n)
    /\ last[n].mcrb.roleRef.namespaces = << <<"a", "b">> >>
    /\ \A ns \in {"a", "b"} :
         ExactlyOne(spoke, GivenRoleBinding(last[n].mcrb, ns))
    /\ ExactlyOne(spoke, GivenClusterRoleBinding(last[n].mcrb))

\* the invocation on record failed on the write of a Grant Binding after it
\* had written the Impersonation Role and the Impersonation Binding
FailedOnGrantBinding(n) ==
  LET calls == last[n].calls
      c == calls[Len(calls)]
      WroteKey(key) == MadeOn(calls, "create", "ok", key)
                       \/ MadeOn(calls, "patch", "ok", key)
  IN  /\ last[n].name # "" /\ calls[1].res = "ok"
      /\ ~last[n].mcrb.deletionTimestamp
      /\ last[n].err # ""
      /\ c.verb \in {"create", "patch"} /\ FailedCall(c)
      /\ c.key \in GrantBindingKeys(last[n].mcrb)
      /\ WroteKey(KeyOf(ImpersonateClusterRole(last[n].mcrb)))
      /\ WroteKey(KeyOf(ImpersonateClusterRoleBinding(last[n].mcrb)))

\* C9 (as claimed): after a Reconcile that failed on the write of a Grant
\* Binding, the next Reconcile of the same Grant, if no store call fails,
\* returns no error and leaves every Grant Binding of the Grant on the spoke.
C9_RetryAfterPartialFailure ==
  [][\A n \in GrantNames :
       (FailedOnGrantBinding(n) /\ ReturnsFromNext(n)
        /\ NoStoreFailure(last'[n].calls)) =>
          /\ last'[n].err = ""
          /\ IF last[n].mcrb.roleRef.namespaces = NilNamespaces
             THEN ExactlyOne(spoke', GivenClusterRoleBinding(last[n].mcrb))
             ELSE \A i \in 1..Len(last[n].mcrb.roleRef.namespaces[1]) :
                    ExactlyOne(spoke',
                               GivenRoleBinding(last[n].mcrb,
                                 last[n].mcrb.roleRef.namespaces[1][i]))]_vars

\* C10 (as claimed): a Reconcile of a Grant with a deletion marker and
\* without the finalizer returns no error and makes no store call after the
\* load: no list, no delete and no update of the Grant.
C10_NoCleanupWithoutFinalizer ==
  \A n \in GrantNames :
    (HandledTerminating(n) /\ ~HadFinalizer(n)) =>
       (Succeeded(n) /\ Len(last[n].calls) = 1)

\* the object of the i-th call is on the spoke afterwards if the call
\* created or patched it, and is not if the call deleted it
KeptAsWritten(calls, i, store) ==
  /\ (calls[i].verb \in {"create", "patch"} /\ calls[i].res = "ok") =>
        Exists(store, calls[i].key)
  /\ (calls[i].verb = "delete" /\ calls[i].res = "ok") =>
        ~Exists(store, calls[i].key)

\* C11: in every Reconcile, a failed store mutation (finalizer add or
\* remove, create or patch of a derived object, delete of a swept object) is
\* the last call of the invocation, the invocation returns an error, and
\* what the calls before it wrote or deleted stays written or deleted.
C11_FirstFailureAborts ==
  \A n \in GrantNames :
    Invoked(n) =>
      \A i \in 1..Len(last[n].calls) :
        FailedCall(last[n].calls[i]) =>
           /\ i = Len(last[n].calls)
           /\ last[n].err # ""
           /\ \A j \in 1..(i - 1) : KeptAsWritten(last[n].calls, j, spoke)
           /\ (\E j \in 1..(i - 1) : last[n].calls[j].verb = "update") =>
                 FinalizerOn(n)

\* C11 witness: a Reconcile added the finalizer, created the Impersonation
\* Role and then failed on the create of the Impersonation Binding; the role
\* is on the spoke and no Grant Binding was written.
C11_Witness ==
  \E n \in GrantNames :
    /\ HandledActive(n) /\ ~Succeeded(n) /\ ~HadFinalizer(n)
    /\ Len(last[n].calls) = 6
    /\ last[n].calls[2].verb = "update" /\ last[n].calls[2].res = "ok"
    /\ last[n].calls[4].verb = "create" /\ last[n].calls[4].res = "ok"
    /\ last[n].calls[6].verb = "create" /\ last[n].calls[6].res = "error"
    /\ Exists(spoke, KeyOf(ImpersonateClusterRole(last[n].mcrb)))
    /\ ~Exists(spoke, KeyOf(ImpersonateClusterRoleBinding(last[n].mcrb)))
    /\ FinalizerOn(n)

\* C12 (as claimed): Reconcile loads the Grant from the hub store and writes
\* the finalizer add and the finalizer remove back to the hub store; it makes
\* no call for the Grant on the spoke store.
C12_GrantWrittenToHubOnly ==
  \A n \in GrantNames :
    Invoked(n) =>
      \A i \in 1..Len(last[n].calls) :
        last[n].calls[i].key[1] = "ManagedClusterRoleBinding" =>
           last[n].calls[i].client = "hub"

\* C13 (as claimed): with redelivery and store calls that stop failing,
\* every Grant with a deletion marker and the finalizer is released by the
\* hub store in the end.
C13_TerminatingReleased ==
  \A name \in GrantNames :
    (TerminatingOn(name) /\ FinalizerOn(name)) ~> (hub[name] = NoGrant)

\* C14 (as claimed): with redelivery and store calls that stop failing,
\* every Grant without a deletion marker comes to carry the finalizer with
\* all its derived objects on the spoke, unless it is deleted before.
C14_ActiveMaterialized ==
  \A name \in GrantNames :
    ActiveOn(name) ~> (Materialized(name) \/ TerminatingOn(name))

\* the worker of the Grant `name` has ended an invocation that went as far
\* as the Get of the Impersonation Role, and runs none
RanOnShared(name) ==
  /\ Handled(name)
  /\ last[name].mcrb.subjects # <<>>
  /\ MadeOn(last[name].calls, "get", "ok",
            KeyOf(ImpersonateClusterRole(last[name].mcrb)))
     \/ MadeOn(last[name].calls, "get", "notfound",
               KeyOf(ImpersonateClusterRole(last[name].mcrb)))

\* C15 (as claimed): when the workers of two Active Grants with one subject
\* and one hub owner have both ended, whatever the order their store calls
\* took, the spoke holds exactly one Impersonation Role and exactly one
\* Impersonation Binding with the rule, subject and role reference that
\* either Grant computes.
C15_SharedObjectsConverge ==
  (\A name \in GrantNames : ActiveOn(name) /\ RanOnShared(name)) =>
     \A name \in GrantNames :
       /\ ExactlyOne(spoke, ImpersonateClusterRole(hub[name]))
       /\ ExactlyOne(spoke, ImpersonateClusterRoleBinding(hub[name]))

\* C16 (as claimed): in every state of the spoke, a ClusterRoleBinding of
\* the gateway service account (an Impersonation Binding) references a
\* ClusterRole that is on the spoke.
C16_BindingHasRole ==
  \A o \in spoke :
    (o.kind = "ClusterRoleBinding" /\ o.subjects = <<GatewaySubject>>) =>
       Exists(spoke, <<"ClusterRole", "", o.roleRef.name>>)

\* the invocation on record ran the sweep
Swept(n) ==
  /\ HandledTerminating(n) /\ HadFinalizer(n)
  /\ Len(last[n].calls) > 1 /\ last[n].calls[2].verb = "list"

\* C17: in the sweep a failed list is not returned as an error: nothing of
\* its kind is deleted and the sweep goes on with the next kind or, after
\* the last kind, with the removal of the finalizer; only a failed delete
\* ends the sweep, as its last call and with an error.
C17_ListFailureSwallowed ==
  \A n \in GrantNames :
    Swept(n) =>
      LET calls == last[n].calls IN
      /\ \A i \in 1..Len(calls) :
           (calls[i].verb = "list" /\ calls[i].res = "error") =>
              /\ i < Len(calls)
              /\ calls[i + 1].verb =
                   (IF calls[i].key[1] = "ClusterRoleBinding"
                    THEN "update" ELSE "list")
              /\ \A j \in 1..Len(calls) :
                   calls[j].verb = "delete" =>
                      calls[j].key[1] # calls[i].key[1]
      /\ \A i \in 1..Len(calls) :
           (calls[i].verb = "delete" /\ FailedCall(calls[i])) =>
              (i = Len(calls) /\ ~Succeeded(n))
      /\ ~Succeeded(n) => calls[Len(calls)].verb \in {"delete", "update"}
      /\ ~FailedDelete(calls) =>
           Cardinality({i \in 1..Len(calls) : calls[i].verb = "list"}) = 3

\* C17 witness: a sweep whose list of the ClusterRoles failed went on to
\* delete a ClusterRoleBinding and to remove the finalizer, without error.
C17_Witness ==
  \E n \in GrantNames :
    /\ Swept(n) /\ Succeeded(n)
    /\ MadeOn(last[n].calls, "list", "error", <<"ClusterRole", "", "">>)
    /\ \E i \in 1..Len(last[n].calls) :
         /\ last[n].calls[i].verb = "delete" /\ last[n].calls[i].res = "ok"
         /\ last[n].calls[i].key[1] = "ClusterRoleBinding"
    /\ ~FinalizerOn(n)

\* C18 (as claimed): after a successful Reconcile of an Active Grant, the
\* spoke holds no Grant Binding of the Grant in a namespace the Grant does
\* not target, no cluster-scoped Grant Binding of a Grant that targets
\* namespaces, and no Impersonation Role or Binding for another subject than
\* the Grant's (the Grant is the only one there has been).
C18_NoStaleDerivedObject ==
  \A n \in GrantNames :
    (HandledActive(n) /\ Succeeded(n)) =>
       LET grant == last[n].mcrb
       IN  /\ \A o \in spoke :
                (o.kind = "RoleBinding" /\ o.name = grant.name) =>
                   KeyOf(o) \in GrantBindingKeys(grant)
           /\ grant.roleRef.namespaces # NilNamespaces =>
                ~\E o \in spoke : Same(o, GivenClusterRoleBinding(grant))
           /\ \A user \in Users \ {UserName(grant)} :
                LET former == [grant EXCEPT !.subjects = <<user>>] IN
                ~\E o \in spoke :
                   \/ Same(o, ImpersonateClusterRole(former))
                   \/ Same(o, ImpersonateClusterRoleBinding(former))

\* C19 (as claimed): after a successful Reconcile of an Active Grant the
\* spoke holds a Grant Binding of the Grant, whatever the Grant's scope: a
\* binding named as the Grant whose subjects are the Grant's user, as the
\* store keeps it.
C19_SomeGrantBinding ==
  \A n \in GrantNames :
    (HandledActive(n) /\ Succeeded(n)) =>
       \E o \in spoke :
         /\ o.kind \in {"ClusterRoleBinding", "RoleBinding"}
         /\ o.name = last[n].mcrb.name
         /\ o.subjects =
              Defaulted(GivenClusterRoleBinding(last[n].mcrb)).subjects

\* the worker of the Grant `name` has ended a Reconcile without error and
\* runs none, and the Grant, Active, has its finalizer and its derived
\* objects
Reconciled(name) ==
  /\ ActiveOn(name)
  /\ Handled(name) /\ Succeeded(name)
  /\ Materialized(name)

\* C20 (as claimed): a delete of the sweep for a Terminating Grant leaves on
\* the spoke every derived object of the other Grant when that one is Active
\* and reconciled.
C20_SweepSparesActiveGrant ==
  [][\A swept \in GrantNames : \A other \in GrantNames \ {swept} :
       (inflight[swept].pc = "delete" /\ Reconciled(other)) =>
          \A k \in DerivedKeys(hub[other]) : Exists(spoke', k)]_vars

====
